---- MODULE Spec2Model ----
(***************************************************************************)
(* A model of pycurious/optimise.py: the CurieOptimise prior store, the    *)
(* penalised objective min_func, the batch estimator optimise_routine, the *)
(* Metropolis-Hastings sampler and the Monte Carlo sensitivity analysis.   *)
(*                                                                         *)
(* Floating point numbers are modelled as exact rationals extended with    *)
(* +inf, -inf and nan, with the IEEE rules numpy applies to them (division *)
(* by zero gives inf or nan, nan propagates, comparisons with nan are      *)
(* false).  Rounding and overflow of finite values are not modelled.       *)
(***************************************************************************)
EXTENDS Integers, Sequences, FiniteSets, TLC

VARIABLES
    prior,      \* self.prior: key -> None or the list of prior arguments
    prior_pdf,  \* self.prior_pdf: key -> None or the distribution object
    pc,         \* position of the running call ("idle" between calls)
    pre,        \* history: self.prior and self.prior_pdf when the call began
    call,       \* the arguments and the locals of the running call
    ret         \* the outcome of the last finished call

vars == <<prior, prior_pdf, pc, pre, call, ret>>

\* ------------------------------------------------------------------------
\* Floating point values

RECURSIVE GCD(_, _)
GCD(a, b) == IF b = 0 THEN a ELSE GCD(b, a % b)

Abs(n) == IF n < 0 THEN -n ELSE n

\* the finite value n/d in lowest terms, d > 0
Fin(n, d) ==
    LET s == IF d < 0 THEN -1 ELSE 1
        g == GCD(Abs(n), Abs(d))
    IN  [k |-> "fin", n |-> (s * n) \div g, d |-> (s * d) \div g]

Num(n) == Fin(n, 1)
PInf == [k |-> "inf", n |-> 1, d |-> 1]
NInf == [k |-> "inf", n |-> -1, d |-> 1]
NaN == [k |-> "nan", n |-> 0, d |-> 1]

IsFin(a) == a.k = "fin"
IsNaN(a) == a.k = "nan"
IsInf(a) == a.k = "inf"
Sign(a) == IF a.n > 0 THEN 1 ELSE IF a.n < 0 THEN -1 ELSE 0
InfOf(s) == IF s > 0 THEN PInf ELSE NInf

FNeg(a) == [a EXCEPT !.n = -a.n]

FAdd(a, b) ==
    IF IsNaN(a) \/ IsNaN(b) THEN NaN
    ELSE IF IsInf(a) /\ IsInf(b) THEN (IF a.n = b.n THEN a ELSE NaN)
    ELSE IF IsInf(a) THEN a
    ELSE IF IsInf(b) THEN b
    ELSE Fin(a.n * b.d + b.n * a.d, a.d * b.d)

FSub(a, b) == FAdd(a, FNeg(b))

FMul(a, b) ==
    IF IsNaN(a) \/ IsNaN(b) THEN NaN
    ELSE IF IsInf(a) \/ IsInf(b)
         THEN (IF Sign(a) * Sign(b) = 0 THEN NaN ELSE InfOf(Sign(a) * Sign(b)))
    ELSE Fin(a.n * b.n, a.d * b.d)

\* numpy float64 division: x/0 is +-inf, 0/0 and inf/inf are nan
FDiv(a, b) ==
    IF IsNaN(a) \/ IsNaN(b) THEN NaN
    ELSE IF IsInf(a) THEN (IF IsInf(b) THEN NaN
                           ELSE InfOf(a.n * (IF Sign(b) < 0 THEN -1 ELSE 1)))
    ELSE IF IsInf(b) THEN Num(0)
    ELSE IF b.n = 0 THEN (IF a.n = 0 THEN NaN ELSE InfOf(Sign(a)))
    ELSE Fin(a.n * b.d, a.d * b.n)

\* a < b as numpy compares: false when either side is nan
FLt(a, b) ==
    /\ ~IsNaN(a)
    /\ ~IsNaN(b)
    /\ IF IsInf(a) THEN a.n < 0 /\ ~(IsInf(b) /\ b.n < 0)
       ELSE IF IsInf(b) THEN b.n > 0
       ELSE a.n * b.d < b.n * a.d

FLe(a, b) == ~IsNaN(a) /\ ~IsNaN(b) /\ ~FLt(b, a)

\* np.isfinite
isfinite(a) == IsFin(a)

\* ------------------------------------------------------------------------
\* The prior store

Keys == {"beta", "zt", "dz", "C"}

\* the keys in the order the dictionaries of reset_priors hold them
KeyOrder == <<"beta", "zt", "dz", "C">>

None == [some |-> FALSE, args |-> <<>>]
Some(a) == [some |-> TRUE, args |-> a]

\* reset_priors: both dictionaries map every key to None
EmptyStore == [key \in Keys |-> None]

Init ==
    /\ prior = EmptyStore
    /\ prior_pdf = EmptyStore
    /\ pc = "idle"
    /\ pre = [prior |-> EmptyStore, prior_pdf |-> EmptyStore]
    /\ call = [op |-> "init"]
    /\ ret = [op |-> "init", err |-> "none"]

\* ret while a call is running
Running == [op |-> "none", err |-> "running"]

reset_priors ==
    /\ pc = "idle"
    /\ prior' = EmptyStore
    /\ prior_pdf' = EmptyStore
    /\ pre' = [prior |-> prior, prior_pdf |-> prior_pdf]
    /\ call' = [op |-> "reset_priors"]
    /\ ret' = [op |-> "reset_priors", err |-> "none"]
    /\ UNCHANGED pc

\* ------------------------------------------------------------------------
\* add_prior

\* the values a caller passes for a named prior: a tuple, a frozen
\* scipy.stats distribution (identified by its args), or anything else
Tuple(a) == [type |-> "tuple", args |-> a]
Frozen(a) == [type |-> "frozen", args |-> a]
Other == [type |-> "other", args |-> <<>>]

PriorValues ==
    { Tuple(<<Num(1), Num(1)>>),          \* beta=(1.0, 1.0)
      Tuple(<<Num(2), Num(0)>>),          \* a zero scale
      Tuple(<<Num(1), Num(1), Num(1)>>),  \* a tuple that does not unpack
      Frozen(<<>>),                       \* stats.norm(loc=.., scale=..)
      Other }                             \* a list, a number, ...

\* the names callers use: two of the four parameters and an unrecognised one
PriorKeys == {"beta", "dz"}
KwargKeys == PriorKeys \cup {"foo"}

MaxKwargs == 2

\* the keyword arguments of one call, in the order the loop visits them
Kwargs ==
    { kw \in UNION { [1..n -> KwargKeys \X PriorValues] : n \in 1..MaxKwargs } :
        \A i, j \in 1..Len(kw) : i # j => kw[i][1] # kw[j][1] }

\* the calls that register one prior: a normal one, one with a zero scale,
\* one given as a frozen distribution built from keyword arguments
KwargsOne ==
    { <<<<key, v>>>> : key \in PriorKeys,
                      v \in { Tuple(<<Num(1), Num(1)>>),
                              Tuple(<<Num(2), Num(0)>>), Frozen(<<>>) } }

\* lines 62-68: the distribution object of a value, or the ValueError
PdfOf(value) ==
    IF value.type = "tuple"
    THEN (IF Len(value.args) = 2 THEN [err |-> FALSE, pdf |-> Some(value.args)]
          ELSE [err |-> TRUE, pdf |-> None])
    ELSE IF value.type = "frozen" THEN [err |-> FALSE, pdf |-> Some(value.args)]
    ELSE [err |-> TRUE, pdf |-> None]

\* lines 70-72: store the distribution and the list of its arguments
StorePrior(st, key, pdf) ==
    [prior |-> [st.prior EXCEPT ![key] = Some(pdf.args)],
     prior_pdf |-> [st.prior_pdf EXCEPT ![key] = pdf],
     err |-> FALSE]

\* lines 59-75: the loop over kwargs from position i, on the store st
RECURSIVE AddPriorLoop(_, _, _)
AddPriorLoop(kw, i, st) ==
    IF i > Len(kw) THEN st
    ELSE LET key == kw[i][1]
             r == PdfOf(kw[i][2])
         IN  IF key \in Keys /\ ~r.err
             THEN AddPriorLoop(kw, i + 1, StorePrior(st, key, r.pdf))
             ELSE [st EXCEPT !.err = TRUE]

add_prior(kw) ==
    /\ pc = "idle"
    /\ LET r == AddPriorLoop(kw, 1, [prior |-> prior, prior_pdf |-> prior_pdf,
                                     err |-> FALSE])
       IN  /\ prior' = r.prior
           /\ prior_pdf' = r.prior_pdf
           /\ ret' = [op |-> "add_prior",
                      err |-> IF r.err THEN "ValueError" ELSE "none"]
    /\ pre' = [prior |-> prior, prior_pdf |-> prior_pdf]
    /\ call' = [op |-> "add_prior", kwargs |-> kw]
    /\ UNCHANGED pc

\* ------------------------------------------------------------------------
\* The penalised objective

\* 0.5*np.linalg.norm(v)**2 of the sequence v: half the sum of squares
RECURSIVE SumSq(_)
SumSq(v) ==
    IF v = <<>> THEN Num(0) ELSE FAdd(FMul(Head(v), Head(v)), SumSq(Tail(v)))

\* line 120, on sequences of equal length (a scalar is a sequence of one)
objective_function(x, x0, sigma_x0) ==
    FMul(Fin(1, 2),
         SumSq([i \in 1..Len(x) |-> FDiv(FSub(x[i], x0[i]), sigma_x0[i])]))

\* line 103 raises TypeError when the argument list has fewer than two entries
PenaltyRaises(pr) ==
    \E key \in Keys : pr[key].some /\ Len(pr[key].args) < 2

\* lines 96-104 called as objective_routine(beta=, zt=, dz=, C=), from key i
RECURSIVE objective_routine(_, _, _)
objective_routine(pr, x, i) ==
    IF i > 4 THEN Num(0)
    ELSE LET a == pr[KeyOrder[i]]
             rest == objective_routine(pr, x, i + 1)
         IN  IF a.some
             THEN FAdd(objective_function(<<x[i]>>, <<a.args[1]>>, <<a.args[2]>>),
                       rest)
             ELSE rest

\* line 151: 1e99, carried as a finite value above every threshold the
\* sampler compares it with
Sentinel == [k |-> "fin", n |-> 100000000, d |-> 1]

\* lines 149-154, given the synthetic spectrum Phi_syn the forward model
\* returned for x
min_func(pr, x, Phi_syn, Phi, sigma_Phi) ==
    LET misfit == objective_function(Phi_syn, Phi, sigma_Phi)
    IN  IF ~isfinite(misfit) THEN Sentinel
        ELSE FAdd(misfit, objective_routine(pr, x, 1))

\* the observed spectrum of the window (two bins)
Phi == <<Num(1), Num(2)>>
sigma_Phi == <<Num(1), Num(1)>>

\* synthetic spectra the forward model may return: exact, near, far (a
\* misfit of 800), and out of range (nan, inf)
SynSpectra ==
    { <<Num(1), Num(2)>>, <<Num(2), Num(2)>>, <<Num(41), Num(2)>>,
      <<NaN, Num(2)>>, <<Num(1), PInf>> }

\* parameter vectors [beta, zt, dz, C]
Vec(b, z, d, c) == <<Num(b), Num(z), Num(d), Num(c)>>
XVals == { Vec(1, 1, 1, 1), Vec(2, 1, 0, 1), Vec(3, 2, 1, -1) }

\* a direct evaluation of min_func at x
EvalMinFunc(x, Phi_syn) ==
    /\ pc = "idle"
    /\ ret' = IF isfinite(objective_function(Phi_syn, Phi, sigma_Phi))
                 /\ PenaltyRaises(prior)
              THEN [op |-> "min_func", err |-> "TypeError", val |-> NaN]
              ELSE [op |-> "min_func", err |-> "none",
                    val |-> min_func(prior, x, Phi_syn, Phi, sigma_Phi)]
    /\ call' = [op |-> "min_func", x |-> x, Phi_syn |-> Phi_syn]
    /\ pre' = [prior |-> prior, prior_pdf |-> prior_pdf]
    /\ UNCHANGED <<prior, prior_pdf, pc>>

\* the prior store and direct evaluations of the objective
NextStore ==
    \/ reset_priors
    \/ \E kw \in Kwargs : add_prior(kw)
    \/ \E x \in XVals, s \in SynSpectra : EvalMinFunc(x, s)

SpecStore == Init /\ [][NextStore]_vars

\* ------------------------------------------------------------------------
\* The claims on the prior store and the objective

\* C7: min_func returns a finite scalar for every parameter vector, every
\* synthetic spectrum and every prior configuration add_prior accepts.
C7_MinFuncFinite ==
    (ret.op = "min_func" /\ ret.err = "none") => isfinite(ret.val)

\* C10: an add_prior call that fails leaves both mappings as they were
\* before the call, and a parameter has prior arguments exactly when it has
\* a distribution object.
C10_FailedAddPriorKeepsStore ==
    /\ (ret.op = "add_prior" /\ ret.err = "ValueError")
          => prior = pre.prior /\ prior_pdf = pre.prior_pdf
    /\ \A key \in Keys : prior[key].some <=> prior_pdf[key].some

\* ------------------------------------------------------------------------
\* optimise_routine

\* vectors the bounded minimiser returns (beta, zt, dz >= 0 by self.bounds)
XRes == { Vec(3, 1, 10, 5), Vec(2, 0, 9, -4) }

\* what np.empty leaves in a row that has not been written
Garbage == Vec(-7, -7, -7, -7)

Coords == {10, 20}

MaxCentroids == 2

CentroidLists == UNION { [1..n -> Coords] : n \in 0..MaxCentroids }

\* the length test that only catches a longer xc_list
ShapeMismatchOneSided(xc_list, yc_list) == Len(xc_list) > Len(yc_list)

\* line 243
ShapeMismatch(xc_list, yc_list) == Len(xc_list) # Len(yc_list)

\* samples.T / xOpt.T as a list: one sequence per parameter
Transpose(rows) == [j \in 1..4 |-> [i \in 1..Len(rows) |-> rows[i][j]]]

\* lines 241-248
BatchCall(xc_list, yc_list) ==
    /\ pc = "idle"
    /\ pre' = [prior |-> prior, prior_pdf |-> prior_pdf]
    /\ IF ShapeMismatch(xc_list, yc_list)
       THEN /\ call' = [op |-> "optimise_routine", xc_list |-> xc_list,
                        yc_list |-> yc_list, i |-> 0, xOpt |-> <<>>,
                        calls |-> <<>>]
            /\ ret' = [op |-> "optimise_routine", err |-> "ValueError",
                       val |-> <<>>]
            /\ UNCHANGED pc
       ELSE /\ call' = [op |-> "optimise_routine", xc_list |-> xc_list,
                        yc_list |-> yc_list, i |-> 0,
                        xOpt |-> [k \in 1..Len(xc_list) |-> Garbage],
                        calls |-> <<>>]
            /\ pc' = "batch"
            /\ ret' = Running
    /\ UNCHANGED <<prior, prior_pdf>>

\* lines 250-255: one pass of the loop; optimise returns res or raises
BatchStep(res, fails) ==
    /\ pc = "batch"
    /\ call.i < Len(call.xc_list)
    /\ LET k == call.i + 1
           c == [xc |-> call.xc_list[k], yc |-> call.yc_list[k], res |-> res]
       IN  IF fails
           THEN /\ call' = [call EXCEPT !.calls = Append(@, c)]
                /\ ret' = [op |-> "optimise_routine", err |-> "Exception",
                           val |-> <<>>]
                /\ pc' = "idle"
           ELSE /\ call' = [call EXCEPT !.i = k, !.xOpt[k] = res,
                                        !.calls = Append(@, c)]
                /\ UNCHANGED <<pc, ret>>
    /\ UNCHANGED <<prior, prior_pdf, pre>>

\* line 257
BatchReturn ==
    /\ pc = "batch"
    /\ call.i = Len(call.xc_list)
    /\ ret' = [op |-> "optimise_routine", err |-> "none",
               val |-> Transpose(call.xOpt)]
    /\ pc' = "idle"
    /\ UNCHANGED <<prior, prior_pdf, pre, call>>

NextBatch ==
    \/ \E xc_list, yc_list \in CentroidLists : BatchCall(xc_list, yc_list)
    \/ \E res \in XRes, fails \in BOOLEAN : BatchStep(res, fails)
    \/ BatchReturn

SpecBatch == Init /\ [][NextBatch]_vars

\* C8: mismatched lists fail with ValueError before any estimation is run;
\* equal lists of length N give one estimation per centroid in input order
\* and four sequences of length N holding the results in that order.
C8_BatchShape ==
    call.op = "optimise_routine" =>
      /\ Len(call.calls) <= Len(call.xc_list)
      /\ \A k \in 1..Len(call.calls) :
            /\ call.calls[k].xc = call.xc_list[k]
            /\ call.calls[k].yc = call.yc_list[k]
      /\ Len(call.xc_list) # Len(call.yc_list)
            => /\ pc = "idle"
               /\ call.calls = <<>>
               /\ ret.op = "optimise_routine" /\ ret.err = "ValueError"
      /\ (pc = "idle" /\ ret.err = "none")
            => /\ Len(call.calls) = Len(call.xc_list)
               /\ Len(ret.val) = 4
               /\ \A j \in 1..4 :
                     /\ Len(ret.val[j]) = Len(call.xc_list)
                     /\ \A k \in 1..Len(call.xc_list) :
                           ret.val[j][k] = call.calls[k].res[j]

C8_Witness ==
    /\ call.op = "optimise_routine"
    /\ pc = "idle"
    /\ ret.err = "none"
    /\ Len(call.xc_list) = 2
    /\ call.calls[1].res # call.calls[2].res

\* ------------------------------------------------------------------------
\* sensitivity

MaxNsim == 2

\* values prior_pdf.rvs() may return
RvsVals == { Num(5), Num(6) }

\* lines 377-381: the keys that have a distribution, in dictionary order
UseKeys(pdf) == SelectSeq(KeyOrder, LAMBDA key : pdf[key].some)

\* lines 392-394 from position i of use_keys: each location is overwritten
\* by a sample rv[key]; assigning entry 0 of an empty list raises IndexError
RECURSIVE Resample(_, _, _, _)
Resample(pr, use_keys, i, rv) ==
    IF i > Len(use_keys) THEN [prior |-> pr, err |-> FALSE]
    ELSE LET key == use_keys[i]
         IN  IF pr[key].args = <<>> THEN [prior |-> pr, err |-> TRUE]
             ELSE Resample([pr EXCEPT ![key].args[1] = rv[key]],
                           use_keys, i + 1, rv)

\* the restore loop that leaves the lists as the iterations left them
RestoreSkipped(pr, pdf, use_keys, i) == pr

\* lines 403-405 from position i of use_keys
RECURSIVE Restore(_, _, _, _)
Restore(pr, pdf, use_keys, i) ==
    IF i > Len(use_keys) THEN pr
    ELSE Restore([pr EXCEPT ![use_keys[i]] = Some(pdf[use_keys[i]].args)],
                 pdf, use_keys, i + 1)

\* lines 374-388
SensCall(nsim) ==
    /\ pc = "idle"
    /\ pc' = "sens"
    /\ pre' = [prior |-> prior, prior_pdf |-> prior_pdf]
    /\ call' = [op |-> "sensitivity", nsim |-> nsim, sim |-> 0,
                use_keys |-> UseKeys(prior_pdf),
                samples |-> [k \in 1..nsim |-> Garbage],
                touched |-> FALSE]
    /\ ret' = Running
    /\ UNCHANGED <<prior, prior_pdf>>

\* lines 390-399: one iteration.  The samples rv are drawn, then the
\* spectrum is perturbed and the minimiser returns res, or one of them raises
SensIterate(rv, res, fails) ==
    /\ pc = "sens"
    /\ call.sim < call.nsim
    /\ LET r == Resample(prior, call.use_keys, 1, rv)
           t == call.touched \/ r.prior # pre.prior
       IN  /\ prior' = r.prior
           /\ IF r.err \/ fails
              THEN /\ call' = [call EXCEPT !.touched = t]
                   /\ ret' = [op |-> "sensitivity",
                              err |-> IF r.err THEN "IndexError"
                                      ELSE "Exception",
                              val |-> <<>>]
                   /\ pc' = "idle"
              ELSE /\ call' = [call EXCEPT !.sim = @ + 1,
                                           !.samples[call.sim + 1] = res,
                                           !.touched = t]
                   /\ UNCHANGED <<pc, ret>>
    /\ UNCHANGED <<prior_pdf, pre>>

\* lines 402-407: the priors are restored, then the return statement calls
\* the undefined name yc_list and raises NameError
SensFinish ==
    /\ pc = "sens"
    /\ call.sim = call.nsim
    /\ prior' = Restore(prior, prior_pdf, call.use_keys, 1)
    /\ ret' = [op |-> "sensitivity", err |-> "NameError", val |-> <<>>]
    /\ pc' = "idle"
    /\ UNCHANGED <<prior_pdf, pre, call>>

NextSens ==
    \/ reset_priors
    \/ \E kw \in KwargsOne : add_prior(kw)
    \/ \E nsim \in 0..MaxNsim : SensCall(nsim)
    \/ \E rv \in [PriorKeys -> RvsVals], res \in XRes, fails \in BOOLEAN :
          SensIterate(rv, res, fails)
    \/ SensFinish

SpecSens == Init /\ [][NextSens]_vars

\* the store as add_prior and reset_priors leave it
Registered(st) ==
    \A key \in Keys :
        st.prior[key] = IF st.prior_pdf[key].some
                        THEN Some(st.prior_pdf[key].args) ELSE None

\* a sensitivity call that ran all its iterations and ended
SensRanAll ==
    /\ call.op = "sensitivity"
    /\ pc = "idle"
    /\ call.sim = call.nsim

\* a sensitivity call that ended in an iteration
SensFailed ==
    /\ call.op = "sensitivity"
    /\ pc = "idle"
    /\ call.sim < call.nsim

\* C1: for priors registered through add_prior, once sensitivity has run
\* all nsim iterations and ended, every stored prior argument list equals
\* its value before the call, and keys without a prior remain None.
C1_SensRestores ==
    (SensRanAll /\ Registered(pre)) =>
        /\ prior = pre.prior
        /\ prior_pdf = pre.prior_pdf
        /\ \A key \in Keys : ~pre.prior[key].some => prior[key] = None

C1_Witness ==
    /\ SensRanAll
    /\ Registered(pre)
    /\ call.nsim >= 1
    /\ call.touched
    /\ call.use_keys # <<>>
    /\ \E key \in Keys : ~prior[key].some

\* C2: when an iteration fails after a prior location was overwritten, the
\* stored prior arguments are back at their values before the call when the
\* error leaves the call.
C2_RestoredOnFailure ==
    (SensFailed /\ call.touched) => prior = pre.prior

\* C3: a call in which no iteration fails ends normally and returns the
\* nsim recorded vectors as four sequences of length nsim.
C3_SensReturnsEnsemble ==
    SensRanAll => /\ ret.op = "sensitivity"
                  /\ ret.err = "none"
                  /\ ret.val = Transpose(call.samples)

\* ------------------------------------------------------------------------
\* Probabilities: the values of np.exp(-m).  [k |-> "exp", q |-> a] is
\* e^(-a) for a finite a; exp underflows to zero for a > ExpUnderflow

PZero == [k |-> "zero", q |-> Num(0)]
PNaN == [k |-> "nan", q |-> Num(0)]
PHuge == [k |-> "inf", q |-> Num(0)]
PExp(a) == [k |-> "exp", q |-> a]

\* np.exp(-745.2) is 0.0 in float64
ExpUnderflow == 745

\* np.exp(-a)
ExpNeg(a) ==
    IF IsNaN(a) THEN PNaN
    ELSE IF IsInf(a) THEN (IF a.n > 0 THEN PZero ELSE PHuge)
    ELSE IF FLt(Num(ExpUnderflow), a) THEN PZero
    ELSE PExp(a)

\* a > b on probabilities: false when either side is nan
PGt(a, b) ==
    /\ a.k # "nan"
    /\ b.k # "nan"
    /\ IF a.k = "zero" THEN FALSE
       ELSE IF a.k = "inf" THEN b.k # "inf"
       ELSE IF b.k = "zero" THEN TRUE
       ELSE IF b.k = "inf" THEN FALSE
       ELSE FLt(a.q, b.q)

PLe(a, b) == a.k # "nan" /\ b.k # "nan" /\ ~PGt(a, b)

\* 1e-99 is e^(-227.96)
FloorQ == 228

\* a / b for b not zero
PDivide(a, b) ==
    IF a.k = "nan" \/ b.k = "nan" THEN PNaN
    ELSE IF a.k = "inf" THEN (IF b.k = "inf" THEN PNaN ELSE PHuge)
    ELSE IF b.k = "inf" THEN PZero
    ELSE IF a.k = "zero" THEN PZero
    ELSE ExpNeg(FSub(a.q, b.q))

\* Python's max(a, b) and min(a, b): a unless b > a (b < a)
PyMax(a, b) == IF PGt(b, a) THEN b ELSE a
PyMin(a, b) == IF PGt(a, b) THEN b ELSE a

\* ------------------------------------------------------------------------
\* metropolis_hastings

MaxBurnin == 1

\* the temperature of the burn-in phase (lines 314-315)
Temperature == 1000

\* starting values [beta, zt, dz, C]: the defaults of line 260
Guesses == { Vec(3, 1, 10, 5) }

\* np.random.normal(size=4)*x_scale
Deltas == { Vec(-1, 0, -1, 1), Vec(0, -2, 0, 0) }

\* np.random.rand(), in [0, 1): 0.0 and e^(-1)
UVals == { PZero, PExp(Num(1)) }

\* the synthetic spectra of the sampler's proposals: exact, near, far and
\* out of range
SynMH == { <<Num(1), Num(2)>>, <<Num(2), Num(2)>>, <<Num(41), Num(2)>>,
          <<NaN, Num(2)>> }

\* the priors registered before sampling: on beta, a normal one, one with a
\* zero scale, or a frozen distribution built from keyword arguments
KwargsBeta ==
    { <<<<"beta", v>>>> : v \in { Tuple(<<Num(1), Num(1)>>),
                                 Tuple(<<Num(2), Num(0)>>), Frozen(<<>>) } }

VAdd(x, d) == [j \in 1..4 |-> FAdd(x[j], d[j])]

\* the lower bounds of self.bounds (line 38): beta, zt, dz >= 0
InBounds(x) == \A j \in 1..3 : FLe(Num(0), x[j])

\* the forward misfit of a synthetic spectrum is not finite
Invalid(Phi_syn) == ~isfinite(objective_function(Phi_syn, Phi, sigma_Phi))

\* min_func raises TypeError at x under the priors pr
MinFuncRaises(pr, Phi_syn) == ~Invalid(Phi_syn) /\ PenaltyRaises(pr)

\* the burn-in rule with the comparison reversed
BurninAdoptsReversed(P0, P1) == PGt(P0, P1)

\* line 318
BurninAdopts(P0, P1) == PGt(P1, P0)

\* lines 330-332: P = min(P1/max(P0, 1e-99), 1.0)
AcceptProb(P0, P1) ==
    PyMin(PDivide(P1, PyMax(P0, PExp(Num(FloorQ)))), PExp(Num(0)))

\* line 335
Accepts(P, u) == PLe(u, P)

\* the row that records the proposal instead of the chain state
SampleRowProposal(x0, x1) == x1

\* line 338: the row written is the chain state after the decision
SampleRow(x0, x1) == x0

NoStep == [phase |-> "none", x0 |-> Garbage, x1 |-> Garbage, m0 |-> NaN,
           m1 |-> NaN, invalid1 |-> FALSE, u |-> PNaN, P |-> PNaN,
           adopted |-> FALSE]

\* lines 293-305
MHCall(nsim, burnin, guess, syn0) ==
    /\ pc = "idle"
    /\ pc' = "mh"
    /\ pre' = [prior |-> prior, prior_pdf |-> prior_pdf]
    /\ call' = [op |-> "metropolis_hastings", nsim |-> nsim,
                burnin |-> burnin, b |-> 0, i |-> 0, x0 |-> guess,
                syn0 |-> syn0, samples |-> [k \in 1..nsim |-> Garbage],
                xburn |-> guess, last |-> NoStep]
    /\ ret' = Running
    /\ UNCHANGED <<prior, prior_pdf>>

MHRaise ==
    /\ ret' = [op |-> "metropolis_hastings", err |-> "TypeError",
               val |-> <<>>]
    /\ pc' = "idle"
    /\ UNCHANGED call

\* lines 309-319: one burn-in iteration with the perturbation delta; syn1
\* is the forward model's spectrum at x1
MHBurnin(delta, syn1) ==
    /\ pc = "mh"
    /\ call.b < call.burnin
    /\ LET x1 == VAdd(call.x0, delta)
           m0 == min_func(prior, call.x0, call.syn0, Phi, sigma_Phi)
           m1 == min_func(prior, x1, syn1, Phi, sigma_Phi)
           P0 == ExpNeg(FDiv(m0, Num(Temperature)))
           P1 == ExpNeg(FDiv(m1, Num(Temperature)))
           adopt == BurninAdopts(P0, P1)
           x0n == IF adopt THEN x1 ELSE call.x0
       IN  /\ x1 = call.x0 => syn1 = call.syn0
           /\ IF MinFuncRaises(prior, call.syn0) \/ MinFuncRaises(prior, syn1)
              THEN MHRaise
              ELSE /\ call' = [call EXCEPT
                                 !.b = @ + 1,
                                 !.x0 = x0n,
                                 !.syn0 = IF adopt THEN syn1 ELSE @,
                                 !.xburn = x0n,
                                 !.last = [phase |-> "burnin", x0 |-> call.x0,
                                           x1 |-> x1, m0 |-> m0, m1 |-> m1,
                                           invalid1 |-> Invalid(syn1),
                                           u |-> PNaN, P |-> PNaN,
                                           adopted |-> adopt]]
                   /\ UNCHANGED <<pc, ret>>
    /\ UNCHANGED <<prior, prior_pdf, pre>>

\* lines 323-338: one sampling iteration with the perturbation delta and
\* the uniform draw u
MHSample(delta, syn1, u) ==
    /\ pc = "mh"
    /\ call.b = call.burnin
    /\ call.i < call.nsim
    /\ LET x1 == VAdd(call.x0, delta)
           m0 == min_func(prior, call.x0, call.syn0, Phi, sigma_Phi)
           m1 == min_func(prior, x1, syn1, Phi, sigma_Phi)
           P == AcceptProb(ExpNeg(m0), ExpNeg(m1))
           adopt == Accepts(P, u)
           x0n == IF adopt THEN x1 ELSE call.x0
       IN  /\ x1 = call.x0 => syn1 = call.syn0
           /\ IF MinFuncRaises(prior, call.syn0) \/ MinFuncRaises(prior, syn1)
              THEN MHRaise
              ELSE /\ call' = [call EXCEPT
                                 !.i = @ + 1,
                                 !.x0 = x0n,
                                 !.syn0 = IF adopt THEN syn1 ELSE @,
                                 !.samples[call.i + 1] = SampleRow(x0n, x1),
                                 !.last = [phase |-> "sampling",
                                           x0 |-> call.x0,
                                           x1 |-> x1, m0 |-> m0, m1 |-> m1,
                                           invalid1 |-> Invalid(syn1),
                                           u |-> u, P |-> P,
                                           adopted |-> adopt]]
                   /\ UNCHANGED <<pc, ret>>
    /\ UNCHANGED <<prior, prior_pdf, pre>>

\* line 340
MHReturn ==
    /\ pc = "mh"
    /\ call.b = call.burnin
    /\ call.i = call.nsim
    /\ ret' = [op |-> "metropolis_hastings", err |-> "none",
               val |-> Transpose(call.samples)]
    /\ pc' = "idle"
    /\ UNCHANGED <<prior, prior_pdf, pre, call>>

NextMH ==
    \/ \E kw \in KwargsBeta : add_prior(kw)
    \/ \E nsim \in 0..MaxNsim, burnin \in 0..MaxBurnin, guess \in Guesses,
          syn0 \in SynMH : MHCall(nsim, burnin, guess, syn0)
    \/ \E delta \in Deltas, syn1 \in SynMH : MHBurnin(delta, syn1)
    \/ \E delta \in Deltas, syn1 \in SynMH, u \in UVals :
          MHSample(delta, syn1, u)
    \/ MHReturn

SpecMH == Init /\ [][NextMH]_vars

InMH == call.op = "metropolis_hastings"

\* the total misfit of the current chain state
CurrentMisfit == min_func(prior, call.x0, call.syn0, Phi, sigma_Phi)

\* C4: the chain state after every burn-in and sampling iteration, and
\* every recorded vector, has beta >= 0, zt >= 0 and dz >= 0.
C4_ChainInBounds ==
    InMH => /\ InBounds(call.x0)
            /\ \A k \in 1..call.i : InBounds(call.samples[k])

\* C5: the ensemble has nsim entries; entry i is the chain state after the
\* decision of iteration i: the previous entry (the state left by burn-in
\* for the first) when the proposal is rejected, the proposal when accepted.
C5_EnsembleRecordsChain ==
    InMH =>
      /\ Len(call.samples) = call.nsim
      /\ (pc = "idle" /\ ret.err = "none") =>
            /\ Len(ret.val) = 4
            /\ \A j \in 1..4 :
                  /\ Len(ret.val[j]) = call.nsim
                  /\ \A k \in 1..call.nsim : ret.val[j][k] = call.samples[k][j]
      /\ call.last.phase = "sampling" =>
            LET row == call.samples[call.i]
                prev == IF call.i = 1 THEN call.xburn
                        ELSE call.samples[call.i - 1]
            IN  /\ row = call.x0
                /\ PGt(call.last.u, call.last.P) => ~call.last.adopted
                /\ ~call.last.adopted => row = prev
                /\ call.last.adopted => row = call.last.x1

C5_Witness ==
    /\ InMH
    /\ pc = "idle"
    /\ ret.err = "none"
    /\ call.nsim = 2
    /\ call.burnin = 1
    /\ PGt(call.last.u, call.last.P)
    /\ call.samples[2] = call.samples[1]
    /\ call.samples[1] # call.xburn

\* C6: a proposal whose forward misfit is not finite is never adopted as
\* the chain state, in burn-in and in sampling, for every uniform draw.
C6_InvalidNeverAdopted ==
    (InMH /\ call.last.phase # "none" /\ call.last.invalid1)
        => ~call.last.adopted

\* C9: in burn-in the chain state is replaced only if P1 > P0 at
\* temperature 1000, so its total misfit never increases over a burn-in
\* iteration, and no entry of the ensemble is written during burn-in.
C9_BurninGreedy ==
    InMH =>
      /\ call.last.phase = "burnin" =>
            /\ call.x0 # call.last.x0 =>
                  PGt(ExpNeg(FDiv(call.last.m1, Num(Temperature))),
                      ExpNeg(FDiv(call.last.m0, Num(Temperature))))
            /\ ~FLt(call.last.m0, CurrentMisfit)
            /\ call.xburn = call.x0
      /\ call.i = 0 => \A k \in 1..call.nsim : call.samples[k] = Garbage

C9_Witness ==
    /\ InMH
    /\ call.last.phase = "burnin"
    /\ call.last.adopted
    /\ FLt(CurrentMisfit, call.last.m0)
    /\ call.nsim = 2
    /\ call.samples = <<Garbage, Garbage>>

\* ------------------------------------------------------------------------
\* every operation of the instance

Next == NextStore \/ NextBatch \/ NextSens \/ NextMH

Spec == Init /\ [][Next]_vars
====
